---- MODULE Spec2Model ----
(***************************************************************************)
(* Model of src/src/components/MeasurementCamera.tsx: the MeasurementCamera *)
(* component, its detector initialisation effect, its sampling interval    *)
(* effect, the asynchronous detect() cycle and the pure function           *)
(* calculateMeasurements.                                                  *)
(*                                                                         *)
(* Spec     is the component as a state machine (ticks, detections, mount).*)
(* SpecLive is Spec under fair scheduling of the effect, the ticks and the  *)
(*          detections that resolve with a complete first pose.            *)
(* SpecCalc draws a pose sequence and applies calculateMeasurements to it. *)
(***************************************************************************)
EXTENDS Integers, Sequences, FiniteSets, TLC

VARIABLES
    mounted,        \* the hosting context (the mounted component) is alive
    initCall,       \* the createDetector promise: "pending", "resolved", "rejected"
    detector,       \* useState detector (line 17)
    measurements,   \* useState measurements (line 18): the published Measurement
    video,          \* webcamRef.current.video (lines 65-68)
    effectPending,  \* setDetector was called, the [detector] effect has not re-run yet
    intervals,      \* live setInterval timers, each with the detector its closure sees
    inflight,       \* outstanding detector.estimatePoses calls, in start order; history:
                    \* overtaken = a call started later has already published
    unhandled,      \* promise rejections nobody caught (they reach the global handler)
    cycle,          \* history: what the last tick or detection completion did
    publishedFrom,  \* history: the detection result the published Measurement came from
    calcPoses,      \* SpecCalc: the argument of calculateMeasurements
    calcResult      \* SpecCalc: its return value

vars == <<mounted, initCall, detector, measurements, video, effectPending,
          intervals, inflight, unhandled, cycle, publishedFrom,
          calcPoses, calcResult>>

pipelineVars == <<mounted, initCall, detector, measurements, video, effectPending,
                  intervals, inflight, unhandled, cycle, publishedFrom>>

calcVars == <<calcPoses, calcResult>>

----------------------------------------------------------------------------
(* Bounds of the model *)

\* longest pose sequence a detection returns
MaxPoses == 2

\* most estimatePoses calls outstanding at once
MaxInflight == 3

----------------------------------------------------------------------------
(* Values *)

\* JavaScript null (a record, so that it compares with Measurements and keypoints)
Null == [null |-> TRUE]

\* the PoseDetector that createDetector resolves with
Handle == [detector |-> "MoveNet"]

\* the HTMLVideoElement of the Webcam
VideoElement == [video |-> TRUE]

\* a keypoint with full confidence (score in hundredths)
KP(n, px, py) == [name |-> n, x |-> px, y |-> py, score |-> 100]

\* a keypoint with the confidence s, in hundredths
KPS(n, px, py, s) == [name |-> n, x |-> px, y |-> py, score |-> s]

\* a pose is its keypoints: a sequence of keypoints
MkPose(noseKp, lsKp, rsKp, laKp) == noseKp \o lsKp \o rsKp \o laKp

\* Scenario A of the specification
PoseA == MkPose(<<KP("nose", 150, 100)>>, <<KP("left_shoulder", 100, 200)>>,
                <<KP("right_shoulder", 200, 200)>>, <<KP("left_ankle", 150, 600)>>)

\* another complete pose, shoulders not level, with a right ankle as well
PoseB == MkPose(<<KP("nose", 150, 200)>>, <<KP("left_shoulder", 100, 200)>>,
                <<KP("right_shoulder", 200, 100)>>, <<KP("left_ankle", 150, 600)>>)
         \o <<KP("right_ankle", 200, 100)>>

PoseNoNose == MkPose(<<>>, <<KP("left_shoulder", 100, 200)>>,
                     <<KP("right_shoulder", 200, 200)>>, <<KP("left_ankle", 150, 600)>>)

PoseNoLeftShoulder == MkPose(<<KP("nose", 150, 100)>>, <<>>,
                     <<KP("right_shoulder", 200, 200)>>, <<KP("left_ankle", 150, 600)>>)

PoseNoRightShoulder == MkPose(<<KP("nose", 150, 100)>>, <<KP("left_shoulder", 100, 200)>>,
                     <<>>, <<KP("left_ankle", 150, 600)>>)

\* has a right ankle but no left ankle
PoseNoLeftAnkle == MkPose(<<KP("nose", 150, 100)>>, <<KP("left_shoulder", 100, 200)>>,
                     <<KP("right_shoulder", 200, 200)>>, <<KP("right_ankle", 150, 600)>>)

\* the landmarks of PoseB with low confidence, one of them with confidence 0
PoseBLowScore == MkPose(<<KPS("nose", 150, 200, 0)>>,
                        <<KPS("left_shoulder", 100, 200, 10)>>,
                        <<KPS("right_shoulder", 200, 100, 10)>>,
                        <<KPS("left_ankle", 150, 600, 20)>>)

\* the poses a detection may rank first
FirstPoses == {PoseA, PoseB, PoseBLowScore, PoseNoNose, PoseNoLeftShoulder,
               PoseNoRightShoulder, PoseNoLeftAnkle}

\* the poses a detection may rank after the first
OtherPoses == {PoseA}

RECURSIVE Tails(_)
\* the sequences of at most n poses that may follow the first
Tails(n) == IF n = 0 THEN {<<>>}
            ELSE {<<>>} \cup {<<p>> \o t : p \in OtherPoses, t \in Tails(n - 1)}

\* what detector.estimatePoses may resolve with: zero or more poses
DetectionResults == {<<>>} \cup {<<p>> \o t : p \in FirstPoses, t \in Tails(MaxPoses - 1)}

----------------------------------------------------------------------------
(* calculateMeasurements, lines 33-62 *)

\* PIXEL_TO_CM_RATIO = 0.264583, in millionths
PIXEL_TO_CM_RATIO == 264583

Million == 1000000

\* without Math.abs
Abs_Identity(a) == a

Abs(a) == IF a < 0 THEN 0 - a ELSE a

RECURSIVE FindFrom(_, _, _)
FindFrom(keypoints, n, i) ==
    IF i > Len(keypoints) THEN Null
    ELSE IF keypoints[i].name = n THEN keypoints[i]
    ELSE FindFrom(keypoints, n, i + 1)

RECURSIVE FindConfidentFrom(_, _, _)
FindConfidentFrom(keypoints, n, i) ==
    IF i > Len(keypoints) THEN Null
    ELSE IF keypoints[i].name = n /\ keypoints[i].score > 30 THEN keypoints[i]
    ELSE FindConfidentFrom(keypoints, n, i + 1)

\* keypoints.find(kp => kp.name === n && kp.score > 0.3)
Find_Confident(keypoints, n) == FindConfidentFrom(keypoints, n, 1)

\* keypoints.find(kp => kp.name === n): the first keypoint of that name, or nothing
Find(keypoints, n) == FindFrom(keypoints, n, 1)

\* floor of the square root: the k with k*k <= n < (k+1)*(k+1)
Isqrt(n) == CHOOSE k \in 0..n : k * k <= n /\ n < (k + 1) * (k + 1)

\* (2 * PIXEL_TO_CM_RATIO)^2 in base-1000 digits, least significant first
\* (kept in digits: the products below must fit a 32-bit integer)
RatioSqDigits ==
    LET a  == (2 * PIXEL_TO_CM_RATIO) \div 1000
        b  == (2 * PIXEL_TO_CM_RATIO) % 1000
        d0 == b * b
        d1 == 2 * a * b + d0 \div 1000
        d2 == a * a + d1 \div 1000
    IN  <<d0 % 1000, d1 % 1000, d2 % 1000, d2 \div 1000>>

\* floor(s * (2 * PIXEL_TO_CM_RATIO)^2 / Million^2), by long multiplication
ScaledSquare(s) ==
    LET d  == RatioSqDigits
        t0 == d[1] * s
        t1 == d[2] * s + t0 \div 1000
        t2 == d[3] * s + t1 \div 1000
        t3 == d[4] * s + t2 \div 1000
    IN  t3 \div 1000

\* Math.floor in place of Math.round
RoundCm_Floor(px) == (px * PIXEL_TO_CM_RATIO) \div Million

\* Math.round(px * PIXEL_TO_CM_RATIO) for a pixel length px >= 0 (line 59)
RoundCm(px) == (px * PIXEL_TO_CM_RATIO + Million \div 2) \div Million

\* Math.round(Math.sqrt(s) * PIXEL_TO_CM_RATIO) for s >= 0 (lines 48-51, 60):
\* the greatest r with 2r - 1 <= 2 * ratio * sqrt(s), that is with
\* (2r - 1)^2 <= s * (2 * ratio)^2 when r >= 1
RoundSqrtCm(s) == (Isqrt(ScaledSquare(s)) + 1) \div 2

RECURSIVE FirstCompleteFrom(_, _)
FirstCompleteFrom(poses, i) ==
    IF i > Len(poses) THEN 0
    ELSE IF /\ Find(poses[i], "left_shoulder") # Null
            /\ Find(poses[i], "right_shoulder") # Null
            /\ Find(poses[i], "left_ankle") # Null
            /\ Find(poses[i], "nose") # Null
         THEN i
         ELSE FirstCompleteFrom(poses, i + 1)

\* falls back to the first pose that has the four landmarks
calculateMeasurements_Fallback(poses) ==
    LET i == FirstCompleteFrom(poses, 1)
    IN  IF i = 0 THEN Null
        ELSE
          LET leftShoulder  == Find(poses[i], "left_shoulder")
              rightShoulder == Find(poses[i], "right_shoulder")
              leftAnkle     == Find(poses[i], "left_ankle")
              nose          == Find(poses[i], "nose")
              shoulderWidthSq ==
                  (rightShoulder.x - leftShoulder.x) * (rightShoulder.x - leftShoulder.x)
                + (rightShoulder.y - leftShoulder.y) * (rightShoulder.y - leftShoulder.y)
          IN  [height        |-> RoundCm(Abs(nose.y - leftAnkle.y)),
               shoulderWidth |-> RoundSqrtCm(shoulderWidthSq)]

\* height as the distance between nose and left ankle, not the vertical offset
calculateMeasurements_EuclideanHeight(poses) ==
    IF Len(poses) = 0 THEN Null
    ELSE
      LET keypoints     == poses[1]
          leftShoulder  == Find(keypoints, "left_shoulder")
          rightShoulder == Find(keypoints, "right_shoulder")
          leftAnkle     == Find(keypoints, "left_ankle")
          nose          == Find(keypoints, "nose")
      IN
        IF leftShoulder = Null \/ rightShoulder = Null \/ leftAnkle = Null \/ nose = Null
        THEN Null
        ELSE
          LET shoulderWidthSq ==
                  (rightShoulder.x - leftShoulder.x) * (rightShoulder.x - leftShoulder.x)
                + (rightShoulder.y - leftShoulder.y) * (rightShoulder.y - leftShoulder.y)
              heightSq ==
                  (nose.x - leftAnkle.x) * (nose.x - leftAnkle.x)
                + (nose.y - leftAnkle.y) * (nose.y - leftAnkle.y)
          IN  [height        |-> RoundSqrtCm(heightSq),
               shoulderWidth |-> RoundSqrtCm(shoulderWidthSq)]

calculateMeasurements(poses) ==
    IF Len(poses) = 0 THEN Null
    ELSE
      LET pose          == poses[1]
          keypoints     == pose
          leftShoulder  == Find(keypoints, "left_shoulder")
          rightShoulder == Find(keypoints, "right_shoulder")
          leftAnkle     == Find(keypoints, "left_ankle")
          nose          == Find(keypoints, "nose")
      IN
        IF leftShoulder = Null \/ rightShoulder = Null \/ leftAnkle = Null \/ nose = Null
        THEN Null
        ELSE
          LET shoulderWidthSq ==
                  (rightShoulder.x - leftShoulder.x) * (rightShoulder.x - leftShoulder.x)
                + (rightShoulder.y - leftShoulder.y) * (rightShoulder.y - leftShoulder.y)
              height == Abs(nose.y - leftAnkle.y)
          IN  [height        |-> RoundCm(height),
               shoulderWidth |-> RoundSqrtCm(shoulderWidthSq)]

----------------------------------------------------------------------------
(* The component *)

NoCycle == [op |-> "none", poses |-> <<>>, prev |-> Null, live |-> TRUE,
            overtaken |-> FALSE]

\* the state after the first render and its effects: createDetector is pending
\* (lines 20-31), the first interval is scheduled with detector = null in its
\* closure (lines 77-83)
Init ==
    /\ mounted = TRUE
    /\ initCall = "pending"
    /\ detector = Null
    /\ measurements = Null
    /\ video \in {Null, VideoElement}
    /\ effectPending = FALSE
    /\ intervals = {[detector |-> Null]}
    /\ inflight = <<>>
    /\ unhandled = {}
    /\ cycle = NoCycle
    /\ publishedFrom = <<>>
    /\ calcPoses = <<>>
    /\ calcResult = Null

\* const detector = await createDetector(...); setDetector(detector)  (lines 26-27)
\* a state update of an unmounted component is dropped by React
InitResolve ==
    /\ initCall = "pending"
    /\ initCall' = "resolved"
    /\ detector' = IF mounted THEN Handle ELSE detector
    /\ effectPending' = mounted
    /\ UNCHANGED <<mounted, measurements, video, intervals, inflight, unhandled,
                   cycle, publishedFrom, calcVars>>

\* createDetector rejects: initializeDetector() is called without a catch
\* (line 30), so the rejection is unhandled and no state is set
InitReject ==
    /\ initCall = "pending"
    /\ initCall' = "rejected"
    /\ unhandled' = unhandled \cup {"initializeDetector"}
    /\ UNCHANGED <<mounted, detector, measurements, video, effectPending, intervals,
                   inflight, cycle, publishedFrom, calcVars>>

\* the effect with [] as its dependencies: it does not re-run, and the first
\* interval, whose closure sees detector = null, stays
IntervalEffect_StaleDeps ==
    /\ mounted
    /\ effectPending
    /\ effectPending' = FALSE
    /\ UNCHANGED <<mounted, initCall, detector, measurements, video, intervals,
                   inflight, unhandled, cycle, publishedFrom, calcVars>>

\* the effect without its cleanup: the old interval keeps running
IntervalEffect_NoCleanup ==
    /\ mounted
    /\ effectPending
    /\ effectPending' = FALSE
    /\ intervals' = intervals \cup {[detector |-> detector]}
    /\ UNCHANGED <<mounted, initCall, detector, measurements, video, inflight,
                   unhandled, cycle, publishedFrom, calcVars>>

\* the re-render after setDetector: the effect of lines 77-83 has [detector] as
\* its dependency, so its cleanup clears the old interval and it sets a new one
\* whose closure sees the new detector
IntervalEffect ==
    /\ mounted
    /\ effectPending
    /\ effectPending' = FALSE
    /\ intervals' = {[detector |-> detector]}
    /\ UNCHANGED <<mounted, initCall, detector, measurements, video, inflight,
                   unhandled, cycle, publishedFrom, calcVars>>

\* the Webcam attaches or detaches its video element
VideoRef ==
    /\ mounted
    /\ video' = IF video = Null THEN VideoElement ELSE Null
    /\ UNCHANGED <<mounted, initCall, detector, measurements, effectPending, intervals,
                   inflight, unhandled, cycle, publishedFrom, calcVars>>

\* detect() without the !detector test
detectStart_NoDetectorGuard(t) ==
    IF ~mounted \/ video = Null
    THEN /\ cycle' = [op |-> "skipped", poses |-> <<>>, prev |-> measurements,
                      live |-> mounted, overtaken |-> FALSE]
         /\ UNCHANGED inflight
    ELSE /\ Len(inflight) < MaxInflight
         /\ inflight' = Append(inflight, [detector |-> t.detector, video |-> video,
                                        overtaken |-> FALSE])
         /\ cycle' = [op |-> "started", poses |-> <<>>, prev |-> measurements,
                      live |-> mounted, overtaken |-> FALSE]

\* detect() up to its await (lines 64-70), run by a tick of the interval t
detectStart(t) ==
    IF t.detector = Null \/ ~mounted \/ video = Null
    THEN /\ cycle' = [op |-> "skipped", poses |-> <<>>, prev |-> measurements,
                      live |-> mounted, overtaken |-> FALSE]
         /\ UNCHANGED inflight
    ELSE /\ Len(inflight) < MaxInflight
         /\ inflight' = Append(inflight, [detector |-> t.detector, video |-> video,
                                        overtaken |-> FALSE])
         /\ cycle' = [op |-> "started", poses |-> <<>>, prev |-> measurements,
                      live |-> mounted, overtaken |-> FALSE]

\* setInterval(() => { detect(); }, 100)  (lines 78-80)
Tick ==
    \E t \in intervals :
        /\ detectStart(t)
        /\ UNCHANGED <<mounted, initCall, detector, measurements, video, effectPending,
                       intervals, unhandled, publishedFrom, calcVars>>

RemoveAt(s, i) == SubSeq(s, 1, i - 1) \o SubSeq(s, i + 1, Len(s))

\* setMeasurements without the if (measurements) test
detectFinish_Unguarded(poses) ==
    IF mounted
    THEN /\ measurements' = calculateMeasurements(poses)
         /\ publishedFrom' = poses
    ELSE UNCHANGED <<measurements, publishedFrom>>

\* a miss resets the published value
detectFinish_ClearOnMiss(poses) ==
    LET m == calculateMeasurements(poses)
    IN  IF mounted
        THEN /\ measurements' = m
             /\ publishedFrom' = IF m # Null THEN poses ELSE <<>>
        ELSE UNCHANGED <<measurements, publishedFrom>>

\* the two fields are published one at a time, the second one cycle late
detectFinish_FieldByField(poses) ==
    LET m == calculateMeasurements(poses)
    IN  IF m # Null /\ mounted
        THEN /\ measurements' = IF measurements = Null
                                 THEN [height |-> m.height]
                                 ELSE [height        |-> m.height,
                                       shoulderWidth |-> measurements.shoulderWidth]
             /\ publishedFrom' = poses
        ELSE UNCHANGED <<measurements, publishedFrom>>

\* calculateMeasurements on each result a detection may resolve with, tabulated
\* (line 71 for every poses of line 70)
CalculatedFor == [poses \in DetectionResults |-> calculateMeasurements(poses)]

\* detect() after its await (lines 70-74), for the result poses
detectFinish(poses) ==
    LET m == CalculatedFor[poses]
    IN  IF m # Null /\ mounted
        THEN /\ measurements' = m
             /\ publishedFrom' = poses
        ELSE UNCHANGED <<measurements, publishedFrom>>

\* history: the calls started before call i learn that call i has published
MarkOvertaken(calls, i, published) ==
    [j \in 1..Len(calls) |->
        IF published /\ j < i THEN [calls[j] EXCEPT !.overtaken = TRUE] ELSE calls[j]]

\* a result is published only if no call started later has published already
DetectResolve_StartOrderWins ==
    \E i \in 1..Len(inflight), poses \in DetectionResults :
        /\ cycle' = [op |-> "resolved", poses |-> poses, prev |-> measurements,
                     live |-> mounted, overtaken |-> inflight[i].overtaken]
        /\ inflight' = RemoveAt(MarkOvertaken(inflight, i,
                            mounted /\ CalculatedFor[poses] # Null), i)
        /\ IF inflight[i].overtaken
           THEN UNCHANGED <<measurements, publishedFrom>>
           ELSE detectFinish(poses)
        /\ UNCHANGED <<mounted, initCall, detector, video, effectPending, intervals,
                       unhandled, calcVars>>

\* an outstanding estimatePoses call resolves, in any order
DetectResolve ==
    \E i \in 1..Len(inflight), poses \in DetectionResults :
        /\ cycle' = [op |-> "resolved", poses |-> poses, prev |-> measurements,
                     live |-> mounted, overtaken |-> inflight[i].overtaken]
        /\ inflight' = RemoveAt(MarkOvertaken(inflight, i,
                            mounted /\ CalculatedFor[poses] # Null), i)
        /\ detectFinish(poses)
        /\ UNCHANGED <<mounted, initCall, detector, video, effectPending, intervals,
                       unhandled, calcVars>>

\* a failed detection drops the detector
DetectReject_ResetsDetector ==
    \E i \in 1..Len(inflight) :
        /\ inflight' = RemoveAt(inflight, i)
        /\ unhandled' = unhandled \cup {"detect"}
        /\ detector' = IF mounted THEN Null ELSE detector
        /\ effectPending' = mounted
        /\ cycle' = [op |-> "rejected", poses |-> <<>>, prev |-> measurements,
                     live |-> mounted, overtaken |-> FALSE]
        /\ UNCHANGED <<mounted, initCall, measurements, video, intervals,
                       publishedFrom, calcVars>>

\* an outstanding estimatePoses call rejects: detect() has no try/catch and the
\* interval callback drops the promise (line 79), so the rejection is unhandled
DetectReject ==
    \E i \in 1..Len(inflight) :
        /\ inflight' = RemoveAt(inflight, i)
        /\ unhandled' = unhandled \cup {"detect"}
        /\ cycle' = [op |-> "rejected", poses |-> <<>>, prev |-> measurements,
                     live |-> mounted, overtaken |-> FALSE]
        /\ UNCHANGED <<mounted, initCall, detector, measurements, video, effectPending,
                       intervals, publishedFrom, calcVars>>

\* teardown without clearInterval
Unmount_NoClear ==
    /\ mounted
    /\ mounted' = FALSE
    /\ effectPending' = FALSE
    /\ video' = Null
    /\ UNCHANGED <<initCall, detector, measurements, intervals, inflight, unhandled,
                   cycle, publishedFrom, calcVars>>

\* the hosting context is torn down: the effect cleanup of line 82 runs and the
\* Webcam ref is released
Unmount ==
    /\ mounted
    /\ mounted' = FALSE
    /\ intervals' = {}
    /\ effectPending' = FALSE
    /\ video' = Null
    /\ UNCHANGED <<initCall, detector, measurements, inflight, unhandled, cycle,
                   publishedFrom, calcVars>>

Next ==
    \/ InitResolve
    \/ InitReject
    \/ IntervalEffect
    \/ VideoRef
    \/ Tick
    \/ DetectResolve
    \/ DetectReject
    \/ Unmount

Spec == Init /\ [][Next]_vars

\* a detection resolves with a first pose that gives a Measurement
DetectResolveMeasured ==
    /\ DetectResolve
    /\ cycle'.op = "resolved"
    /\ CalculatedFor[cycle'.poses] # Null

\* The component under fair scheduling: React runs the pending effect, the
\* interval timer keeps firing (setInterval, line 78), and of the detections
\* that are outstanding again and again one eventually resolves with a first
\* pose that has the four landmarks.
SpecLive ==
    /\ Init
    /\ [][Next]_vars
    /\ WF_vars(IntervalEffect)
    /\ WF_vars(Tick)
    /\ SF_vars(DetectResolveMeasured)

\* what the component renders in its measurements panel (lines 99-112)
Render ==
    IF measurements # Null
    THEN [panel |-> "measurements", height |-> measurements.height,
          shoulderWidth |-> measurements.shoulderWidth]
    ELSE [panel |-> "Stand in front of the camera..."]

----------------------------------------------------------------------------
(* calculateMeasurements applied to a drawn pose sequence *)

\* pixel coordinates of the drawn keypoints
XCoords == {100, 150, 200}

YCoords == {100, 200, 600}

\* a keypoint of that name anywhere on the grid, or no such keypoint
OptKeypoint(n) == {<<>>} \cup {<<KP(n, px, py)>> : px \in XCoords, py \in YCoords}

\* every pose over the grid, with any of the four landmarks present or missing
GridPoses == {MkPose(k1, k2, k3, k4) : k1 \in OptKeypoint("nose"),
                                       k2 \in OptKeypoint("left_shoulder"),
                                       k3 \in OptKeypoint("right_shoulder"),
                                       k4 \in OptKeypoint("left_ankle")}

\* the drawn arguments: no pose, one grid pose, or a grid pose with poses after it
CalcInputs == {<<>>} \cup {<<p>> \o t : p \in GridPoses, t \in Tails(MaxPoses - 1)}

NotCalled == [called |-> FALSE]

InitCalc ==
    /\ mounted = TRUE
    /\ initCall = "pending"
    /\ detector = Null
    /\ measurements = Null
    /\ video = Null
    /\ effectPending = FALSE
    /\ intervals = {[detector |-> Null]}
    /\ inflight = <<>>
    /\ unhandled = {}
    /\ cycle = NoCycle
    /\ publishedFrom = <<>>
    /\ calcPoses \in CalcInputs
    /\ calcResult = NotCalled

\* const measurements = calculateMeasurements(poses)  (line 71)
Calculate ==
    /\ calcResult = NotCalled
    /\ calcResult' = calculateMeasurements(calcPoses)
    /\ UNCHANGED <<calcPoses, pipelineVars>>

NextCalc == Calculate

SpecCalc == InitCalc /\ [][NextCalc]_vars

----------------------------------------------------------------------------
(* Properties *)

RequiredLandmarks == {"left_shoulder", "right_shoulder", "left_ankle", "nose"}

\* the pose has no keypoint of some required name
LacksRequired(pose) ==
    \E n \in RequiredLandmarks : \A i \in 1..Len(pose) : pose[i].name # n

\* the detection result yields no Measurement
NoMeasurementResult(poses) == poses = <<>> \/ LacksRequired(poses[1])

\* the keypoint of that name in a pose that has exactly one
Landmark(pose, n) == pose[CHOOSE i \in 1..Len(pose) : pose[i].name = n]

\* r is px * 0.264583 rounded to the nearest integer
IsNearestCm(r, px) ==
    /\ Million * (2 * r - 1) <= 2 * PIXEL_TO_CM_RATIO * px
    /\ 2 * PIXEL_TO_CM_RATIO * px < Million * (2 * r + 1)

\* r is sqrt(s) * 0.264583 rounded to the nearest integer:
\* 2r - 1 <= 2 * 0.264583 * sqrt(s) < 2r + 1, squared
IsNearestSqrtCm(r, s) ==
    /\ r >= 0
    /\ r = 0 \/ (2 * r - 1) * (2 * r - 1) <= ScaledSquare(s)
    /\ ScaledSquare(s) < (2 * r + 1) * (2 * r + 1)

\* C1: at most one detection call is outstanding in every reachable state
\* (a tick that fires while a detection has not completed starts no second one).
C1_AtMostOneOutstanding == Len(inflight) <= 1

\* C2: a cycle whose detection result yields no Measurement (no pose, or a first
\* pose without one of the four required landmarks) leaves the published
\* Measurement as it was before the cycle, "none yet" included.
C2_MissKeepsPublished ==
    (cycle.op = "resolved" /\ NoMeasurementResult(cycle.poses))
        => measurements = cycle.prev

C2_Witness ==
    /\ cycle.op = "resolved"
    /\ cycle.live
    /\ cycle.poses # <<>>
    /\ LacksRequired(cycle.poses[1])
    /\ cycle.prev # Null
    /\ measurements = cycle.prev

\* C3: only the first pose of a result is consulted: a first pose without a
\* required landmark publishes nothing whatever the later poses are, and a
\* complete first pose publishes what that pose alone gives.
C3_OnlyFirstPose ==
    (cycle.op = "resolved" /\ cycle.live /\ Len(cycle.poses) >= 1)
        => IF LacksRequired(cycle.poses[1])
           THEN measurements = cycle.prev
           ELSE /\ measurements # Null
                /\ measurements = calculateMeasurements(<<cycle.poses[1]>>)

C3_Witness ==
    /\ cycle.op = "resolved"
    /\ cycle.live
    /\ Len(cycle.poses) = 2
    /\ LacksRequired(cycle.poses[1])
    /\ ~LacksRequired(cycle.poses[2])
    /\ measurements = cycle.prev

\* C4: a tick that fires before initialization has completed, or while there is
\* no video frame, starts no detection and leaves the published Measurement and
\* the detector handle alone; every outstanding detection was started after
\* initialization completed, with a detector and a frame.
C4_TickWithoutDetectorOrFrame ==
    /\ [][(Tick /\ (initCall # "resolved" \/ video = Null))
            => /\ inflight' = inflight
               /\ measurements' = measurements
               /\ detector' = detector]_vars
    /\ [](\A i \in 1..Len(inflight) :
            /\ initCall = "resolved"
            /\ inflight[i].detector = Handle
            /\ inflight[i].video # Null)

C4_Witness ==
    /\ cycle.op = "skipped"
    /\ cycle.live
    /\ initCall = "pending"
    /\ video # Null
    /\ inflight = <<>>

\* C5: once the published value is a Measurement it stays a Measurement.
C5_NeverCleared == [][measurements # Null => measurements' # Null]_vars

C5_Witness ==
    /\ cycle.op = "resolved"
    /\ cycle.live
    /\ NoMeasurementResult(cycle.poses)
    /\ cycle.prev # Null
    /\ measurements # Null
    /\ Len(inflight) >= 1

\* C6: the published value is "none yet" or a complete {height, shoulderWidth}
\* pair whose two fields both come from the first pose of the one detection
\* result it was published from.
C6_PublishedWhole ==
    \/ measurements = Null /\ publishedFrom = <<>>
    \/ /\ DOMAIN measurements = {"height", "shoulderWidth"}
       /\ Len(publishedFrom) >= 1
       /\ ~LacksRequired(publishedFrom[1])
       /\ measurements.height = calculateMeasurements(<<publishedFrom[1]>>).height
       /\ measurements.shoulderWidth
              = calculateMeasurements(<<publishedFrom[1]>>).shoulderWidth

C6_Witness ==
    /\ cycle.op = "resolved"
    /\ cycle.prev # Null
    /\ measurements # Null
    /\ measurements.height # cycle.prev.height
    /\ measurements.shoulderWidth # cycle.prev.shoulderWidth
    /\ Len(inflight) >= 1

\* C7: for a first pose with the four required landmarks, shoulderWidth is the
\* shoulder distance times 0.264583 rounded to the nearest integer and height is
\* |nose.y - left_ankle.y| times 0.264583 rounded to the nearest integer;
\* Scenario A gives {shoulderWidth: 26, height: 132}.
C7_MeasurementFormula ==
    (calcResult # NotCalled /\ calcPoses # <<>> /\ ~LacksRequired(calcPoses[1]))
        => LET ls == Landmark(calcPoses[1], "left_shoulder")
               rs == Landmark(calcPoses[1], "right_shoulder")
               la == Landmark(calcPoses[1], "left_ankle")
               no == Landmark(calcPoses[1], "nose")
               dx == rs.x - ls.x
               dy == rs.y - ls.y
           IN  /\ DOMAIN calcResult = {"height", "shoulderWidth"}
               /\ IsNearestCm(calcResult.height, Abs(no.y - la.y))
               /\ IsNearestSqrtCm(calcResult.shoulderWidth, dx * dx + dy * dy)
               /\ dy = 0 => IsNearestCm(calcResult.shoulderWidth, Abs(dx))
               /\ dx = 0 => IsNearestCm(calcResult.shoulderWidth, Abs(dy))
               /\ calcPoses[1] = PoseA
                    => calcResult = [shoulderWidth |-> 26, height |-> 132]

C7_Witness ==
    /\ calcPoses = <<PoseA>>
    /\ calcResult = [shoulderWidth |-> 26, height |-> 132]

\* C8: after detector initialization has failed, what the component shows is an
\* "unavailable" state, distinct from the "not yet measured" placeholder.
C8_InitFailureShown ==
    initCall = "rejected"
        => Render # [panel |-> "Stand in front of the camera..."]

\* C9: a failing detection call is absorbed: no error leaves the pipeline and
\* the published Measurement is as it was before the failed cycle.
C9_DetectFailureAbsorbed ==
    /\ "detect" \notin unhandled
    /\ cycle.op = "rejected" => measurements = cycle.prev

\* C10: after teardown no sampling timer is scheduled, no tick fires and no
\* detection call is started.
C10_NoTickAfterTeardown ==
    /\ [](~mounted => intervals = {})
    /\ [][~mounted => (~Tick /\ Len(inflight') <= Len(inflight))]_vars

C10_Witness ==
    /\ ~mounted
    /\ detector = Handle
    /\ Len(inflight) >= 1
    /\ cycle.op = "started"

\* C14: while the session is active a sampling timer is always scheduled and a
\* tick can fire whenever fewer than the modelled maximum of detections are
\* outstanding; a resolved detection leaves the outstanding calls one fewer; and
\* once initialization has completed a Measurement is eventually published,
\* unless the session ends or the frame goes away first.
C14_NoStuckState ==
    /\ [](mounted => intervals # {})
    /\ []((mounted /\ Len(inflight) < MaxInflight) => ENABLED Tick)
    /\ [][DetectResolve => Len(inflight') = Len(inflight) - 1]_vars
    /\ (initCall = "resolved")
          ~> (measurements # Null \/ ~mounted \/ video = Null)

C14_Witness ==
    /\ mounted
    /\ initCall = "resolved"
    /\ video # Null
    /\ cycle.op = "resolved"
    /\ measurements # Null
    /\ Len(inflight) >= 1

\* C11: the one createDetector call settles once and is never made again; the
\* detector handle changes at most once, from null to the created detector when
\* that call resolves, and no tick, detection completion or publish changes it.
C11_DetectorSetOnce ==
    /\ [][initCall # "pending" => initCall' = initCall]_vars
    /\ [][detector' # detector
            => /\ detector = Null
               /\ detector' = Handle
               /\ initCall = "pending"
               /\ initCall' = "resolved"]_vars
    /\ [][(Tick \/ DetectResolve \/ DetectReject) => detector' = detector]_vars
    /\ [](initCall = "rejected" => detector = Null)

C11_Witness ==
    /\ mounted
    /\ detector = Handle
    /\ cycle.op = "rejected"
    /\ measurements # Null
    /\ Len(inflight) >= 1

\* C12: every Measurement calculateMeasurements returns has height >= 0 and
\* shoulderWidth >= 0, also with the nose below the ankle and the right
\* shoulder left of the left shoulder.
C12_NonNegative ==
    (calcResult # NotCalled /\ calcResult # Null)
        => calcResult.height >= 0 /\ calcResult.shoulderWidth >= 0

C12_Witness ==
    /\ calcResult # NotCalled
    /\ calcResult # Null
    /\ Landmark(calcPoses[1], "nose").y > Landmark(calcPoses[1], "left_ankle").y
    /\ Landmark(calcPoses[1], "right_shoulder").x
           < Landmark(calcPoses[1], "left_shoulder").x
    /\ calcResult.height > 0
    /\ calcResult.shoulderWidth > 0

\* C15: the published Measurement is that of the detection that completed last
\* with a result, whenever its tick fired: a completed detection with a result
\* publishes it even if a detection started later has published before, and the
\* published value changes in no other step.
C15_LastToCompleteWins ==
    /\ []((cycle.op = "resolved" /\ cycle.live /\ ~NoMeasurementResult(cycle.poses))
            => measurements = calculateMeasurements(cycle.poses))
    /\ [][measurements' # measurements
            => /\ cycle'.op = "resolved"
               /\ ~NoMeasurementResult(cycle'.poses)
               /\ measurements' = CalculatedFor[cycle'.poses]]_vars

C15_Witness ==
    /\ cycle.op = "resolved"
    /\ cycle.live
    /\ cycle.overtaken
    /\ ~NoMeasurementResult(cycle.poses)
    /\ cycle.prev # Null
    /\ measurements # cycle.prev
    /\ measurements = calculateMeasurements(cycle.poses)

\* C16 as stated: at most one sampling timer is scheduled, and every tick runs
\* with the current detector in its closure.
C16_TickSeesCurrentDetector ==
    /\ [](Cardinality(intervals) <= 1)
    /\ [][Tick => \A t \in intervals : t.detector = detector]_vars

\* C16, amended: at most one sampling timer is scheduled; its closure holds the
\* current detector, or null while the effect has not yet re-run after
\* setDetector; a tick with such an older reference starts nothing, and every
\* detection is started with the current detector.
C16_OneTimer ==
    /\ [](Cardinality(intervals) <= 1)
    /\ [](\A t \in intervals :
            t.detector = detector \/ (effectPending /\ t.detector = Null))
    /\ [](\A i \in 1..Len(inflight) : inflight[i].detector = detector)
    /\ [][(Tick /\ \E t \in intervals : t.detector # detector)
            => inflight' = inflight]_vars

C16_Witness ==
    /\ mounted
    /\ ~effectPending
    /\ detector = Handle
    /\ intervals = {[detector |-> Handle]}
    /\ cycle.op = "started"

\* the height calculateMeasurements gives for one pose
HeightOf(pose) == calculateMeasurements(<<pose>>).height

\* C17: the height of a complete pose stays the same when the x of nose or
\* left_ankle changes, when a shoulder moves, when a right_ankle is added, and
\* when nose and left_ankle exchange their y.
C17_HeightVerticalOnly ==
    (calcResult # NotCalled /\ calcResult # Null)
        => LET ls == Landmark(calcPoses[1], "left_shoulder")
               rs == Landmark(calcPoses[1], "right_shoulder")
               la == Landmark(calcPoses[1], "left_ankle")
               no == Landmark(calcPoses[1], "nose")
               h  == calcResult.height
           IN  /\ \A nx \in XCoords, ax \in XCoords :
                    HeightOf(MkPose(<<[no EXCEPT !.x = nx]>>, <<ls>>, <<rs>>,
                                    <<[la EXCEPT !.x = ax]>>)) = h
               /\ \A px \in XCoords, py \in YCoords :
                    /\ HeightOf(MkPose(<<no>>, <<KP("left_shoulder", px, py)>>,
                                       <<rs>>, <<la>>)) = h
                    /\ HeightOf(MkPose(<<no>>, <<ls>>,
                                       <<KP("right_shoulder", px, py)>>, <<la>>)) = h
                    /\ HeightOf(calcPoses[1] \o <<KP("right_ankle", px, py)>>) = h
                    /\ HeightOf(<<KP("right_ankle", px, py)>> \o calcPoses[1]) = h
               /\ HeightOf(MkPose(<<[no EXCEPT !.y = la.y]>>, <<ls>>, <<rs>>,
                                  <<[la EXCEPT !.y = no.y]>>)) = h

C17_Witness ==
    /\ calcResult # NotCalled
    /\ calcResult # Null
    /\ Len(calcPoses) = 1
    /\ Landmark(calcPoses[1], "nose").x # Landmark(calcPoses[1], "left_ankle").x
    /\ Landmark(calcPoses[1], "nose").y # Landmark(calcPoses[1], "left_ankle").y
    /\ calcResult.height > 0

\* confidence values, in hundredths
ScoreValues == {0, 50, 100}

\* the pose with the confidence of every keypoint replaced
WithScore(pose, sc) == [i \in 1..Len(pose) |-> [pose[i] EXCEPT !.score = sc]]

\* C18: a completed cycle publishes or skips, and publishes the value, that any
\* result with the same first-pose landmark names and coordinates but other
\* confidence values (0 included) gives.
C18_ConfidenceIgnored ==
    (cycle.op = "resolved" /\ cycle.live /\ cycle.poses # <<>>)
        => \A sc \in ScoreValues :
              LET m == calculateMeasurements(<<WithScore(cycle.poses[1], sc)>>)
              IN  measurements = IF m = Null THEN cycle.prev ELSE m

C18_Witness ==
    /\ cycle.op = "resolved"
    /\ cycle.live
    /\ cycle.poses = <<PoseBLowScore>>
    /\ measurements = calculateMeasurements(<<PoseB>>)
    /\ measurements # cycle.prev

====
